---- MODULE Spec2Model ----
\* Model of the Tetracubed Fox bot: the token-caching API client
\* (src/src/api-client.js) and the handlers and status reconciler that call it
\* (src/src/index.js).  Node runs one handler continuation at a time, so every
\* action below is one continuation: from the arrival of an event (a command,
\* a timer tick, an HTTP response, a game-protocol answer) to the next await
\* on the network.
EXTENDS Integers, Sequences, FiniteSets, TLC

\* ------------------------------------------------------------------ bounds
MaxTime == 8
MaxCalls == 4
MaxRuns == 3

Procs == {1, 2}
\* The call slot of the specification in which calls follow one another.
SeqProcs == {1}

\* ------------------------------------------------------------------ time
\* One tick of model time is the 5-minute refresh margin.
TickMs == 5 * 60 * 1000
\* api-client.js:30  Date.now() + (25 * 60 * 1000)
RefreshTicks == (25 * 60 * 1000) \div TickMs
\* api-client.js:29  "Token expires in 30 minutes"
LifetimeTicks == (30 * 60 * 1000) \div TickMs
\* api-client.js:56,78  timeout: 900000
StartStopTimeoutTicks == 900000 \div TickMs

\* ------------------------------------------------------------------ values
\* this.accessToken: null, undefined (a 2xx body without access_token) or a
\* string; a string token is identified by the time the upstream issued it and
\* by the call whose token request it answered.
NullToken == [set |-> "null", iss |-> 0, by |-> 0]
UndefinedToken == [set |-> "undefined", iss |-> 0, by |-> 0]
StringToken(t, p) == [set |-> "string", iss |-> t, by |-> p]

\* this.tokenExpiry: null or a number of ticks.
NullExpiry == 0 - 1

\* JavaScript's ToNumber on tokenExpiry, as the >= of line 40 applies it.
ToNumber(e) == IF e = NullExpiry THEN 0 ELSE e

\* JavaScript truthiness of this.accessToken (line 40, !this.accessToken).
Truthy(tok) == tok.set = "string"

Commands == {"start", "stop", "status", "ping-server"}
Kinds == Commands \cup {"tick"}
ClientKinds == {"start", "stop", "status"}
HandlerKinds == {"status", "ping-server", "tick"}

\* Error objects: message, code, and whether the message contains 'timeout'.
NoError == [message |-> "", code |-> "", timeoutWord |-> FALSE]
MkError(m) == [message |-> m, code |-> "", timeoutWord |-> FALSE]

AuthFailedMessage == "Failed to authenticate with Tetracubed API"

\* Upstream detail of a failed control-plane response: absent or a string.
NoDetail == ""
Details == {NoDetail, "Stack is locked", "Gateway timeout"}
DetailHasTimeoutWord(d) == d = "Gateway timeout"
\* The details seen by the client operations, a rejection of the token included.
TokenRejected == "Could not validate credentials"
ClientDetails == Details \cup {TokenRejected}

\* Errors the game-protocol query rejects with.
QueryErrors ==
    { [message |-> "connect ECONNREFUSED", code |-> "ECONNREFUSED", timeoutWord |-> FALSE],
      [message |-> "connect ECONNREFUSED after timeout", code |-> "ECONNREFUSED", timeoutWord |-> TRUE],
      [message |-> "connect ETIMEDOUT", code |-> "ETIMEDOUT", timeoutWord |-> FALSE],
      [message |-> "Socket timeout", code |-> "", timeoutWord |-> TRUE],
      [message |-> "getaddrinfo ENOTFOUND", code |-> "ENOTFOUND", timeoutWord |-> FALSE] }

\* ResourceSnapshot bodies returned by GET /tetracubed/resources.
Snapshots == {"message", "outputsNoIp", "outputsEmptyIp", "outputsIp"}

\* Player counts <<online, max>> a successful status query reports.
PlayerCounts == {<<0, 20>>, <<3, 20>>}
NoCounts == <<0, 0>>
\* The rendered player count of a reply or presence that shows none.
NoPlayers == ""

\* `${serverStatus.players.online}/${serverStatus.players.max}`
PlayerCount_MaxOnly(pl) == ToString(pl[2])
PlayerCount(pl) == ToString(pl[1]) \o "/" \o ToString(pl[2])

\* process.env.SERVER_HOSTNAME (unset: "") and the public_ip outputs seen.
NoHostname == ""
Hostnames == {NoHostname, "mc.example.org"}
Ips == {"1.2.3.4", "5.6.7.8"}
\* The fixed game port of both status() calls.
GamePort == 25565
NoAddress == [host |-> "", port |-> 0]

\* process.env.SERVER_HOSTNAME || result.outputs.public_ip
EffectiveAddress_IpFirst(h, ip) == IF ip # "" THEN ip ELSE h
EffectiveAddress(h, ip) == IF h # NoHostname THEN h ELSE ip

\* status(serverAddress, 25565, ...)
QueryTarget(h, ip) == [host |-> EffectiveAddress(h, ip), port |-> GamePort]

\* What the control plane answered to the operation's request of a call.
NoAnswer == [ok |-> FALSE, detail |-> "", body |-> "", ip |-> ""]
Failure(d) == [ok |-> FALSE, detail |-> d, body |-> "", ip |-> ""]
Success(b, ip) == [ok |-> TRUE, detail |-> "", body |-> b, ip |-> ip]

\* Bodies of a 2xx answer to POST /tetracubed/start and /stop.
StartStopBodies == {"publicIp", "empty"}

\* Channel ids: null, the environment's NOTIFICATION_CHANNEL_ID, and the
\* channels a set-notification-channel command can name.
NullChannel == "null"
EnvChannels == {NullChannel, "900"}
ChannelIds == {"111", "222"}

\* config: the runtime settings object.
Config(c) == [notificationChannelId |-> c]
Configs == {Config(c) : c \in ChannelIds \cup EnvChannels}

\* JSON.stringify(config, null, 2) and JSON.parse of the text of config.json.
JSONStringify(cfg) ==
    IF cfg.notificationChannelId = NullChannel
    THEN "{\"notificationChannelId\": null}"
    ELSE "{\"notificationChannelId\": \"" \o cfg.notificationChannelId \o "\"}"
\* The texts JSON.parse accepts here, and the key they carry (if any).
Parses(text) == text = "{}" \/ \E cfg \in Configs : JSONStringify(cfg) = text
HasChannelKey(text) == \E cfg \in Configs : JSONStringify(cfg) = text
JSONParse(text) == CHOOSE cfg \in Configs : JSONStringify(cfg) = text

\* config.json: absent, or its text (possibly hand-edited or damaged).
NoFile == "<absent>"
FileTexts == {NoFile, "{}", "{\"notificationChannelId\": ", JSONStringify(Config("111"))}

\* The module-level load: the environment default, overridden key by key by
\* config.json when it exists and parses; a load error keeps the default.
LoadConfig(env, text) ==
    IF text # NoFile /\ Parses(text) /\ HasChannelKey(text)
    THEN JSONParse(text)
    ELSE Config(env)

\* saveConfig: writeFileSync in a try/catch that logs; a failed write leaves
\* the file as it was.
SavedFile(text, cfg, writeOk) == IF writeOk THEN JSONStringify(cfg) ELSE text

\* sendNotification: config.notificationChannelId || process.env.NOTIFICATION_CHANNEL_ID
NotifyChannel(cfg, env) ==
    IF cfg.notificationChannelId # NullChannel THEN cfg.notificationChannelId ELSE env

\* The notification of a call: none, or the channel it goes to and whether
\* the send is pending, was delivered or failed.
NoNotice == [channel |-> NullChannel, delivered |-> "none"]
Notice(ch, d) == [channel |-> ch, delivered |-> d]

\* process.env.ALLOWED_ROLE_ID (unset: "") and process.env.ADMIN_USER_IDS
\* (unset: the empty text), the latter as the ids and commas of its text.
NoRole == ""
RoleEnvs == {NoRole, "r1"}
NoAdmins == <<>>
AdminEnvs == {NoAdmins, <<"u1">>, <<"u1", ",", "u2">>}

\* The member who ran a command: user id, roles held, Administrator bit.
NoUser == [id |-> "", roles |-> {}, administrator |-> FALSE]
Users == [id : {"u1", "u3"}, roles : {{}, {"r1"}}, administrator : BOOLEAN]
AdminUser == [id |-> "u3", roles |-> {}, administrator |-> TRUE]

\* process.env.ADMIN_USER_IDS.split(',')
RECURSIVE Split(_)
Split(text) ==
    IF text = <<>> THEN <<>>
    ELSE IF Head(text) = "," THEN Split(Tail(text))
    ELSE <<Head(text)>> \o Split(Tail(text))
Includes(list, x) == \E i \in DOMAIN list : list[i] = x

\* hasPermission: the first of the three rules that is configured decides.
HasPermission_AnyRule(role, admins, u) ==
    \/ role # NoRole /\ role \in u.roles
    \/ admins # NoAdmins /\ Includes(Split(admins), u.id)
    \/ u.administrator
HasPermission(role, admins, u) ==
    IF role # NoRole THEN role \in u.roles
    ELSE IF admins # NoAdmins THEN Includes(Split(admins), u.id)
    ELSE u.administrator

PermissionDenied == "You do not have permission to use this command."

\* Replies shown to the user and presence values.
NoReply == [title |-> "", text |-> "", players |-> NoPlayers]
Reply(t, x) == [title |-> t, text |-> x, players |-> NoPlayers]
DefaultPresence == [status |-> "default", players |-> NoPlayers]
Presence(s) == [status |-> s, players |-> NoPlayers]

VARIABLES
    now,            \* Date.now(), in ticks
    accessToken,    \* this.accessToken
    tokenExpiry,    \* this.tokenExpiry
    presence,       \* client.user presence
    pc,             \* per call: "idle", "auth", "op", "query", "done"
    kind,           \* per call: the command or "tick"
    sentAt,         \* per call: when the request in flight was sent
    bearer,         \* per call: the token in the Authorization header sent
    snapshot,       \* per call: the ResourceSnapshot received ("" if none)
    thrown,         \* per call: the error the client operation threw
    queryErr,       \* per call: the error the protocol query rejected with
    reply,          \* per call: the final reply shown to the user
    wrote,          \* per call: the presence this tick wrote
    escaped,        \* per call: an exception left the handler
    entry,          \* per call: what the guard found on entry
    ownAuth,        \* per call: "none", "pending", "ok", "failed"
    sent,           \* per call: a control-plane request was sent
    queries,        \* per call: protocol queries made
    answer,         \* per call: the player counts the protocol query returned
    address,        \* per call: the address the protocol query was sent to
    upstream,       \* per call: what the control plane answered to the operation
    hostname,       \* process.env.SERVER_HOSTNAME
    config,         \* the in-memory runtime settings
    file,           \* the text of config.json
    envChannel,     \* process.env.NOTIFICATION_CHANNEL_ID
    lastSet,        \* the channel of the last set-notification-channel change
    boot,           \* the ready handler: "login", "registering", "initial", "ready"
    timers,         \* setInterval calls made
    ticks,          \* firings of the interval, modulo 2
    notice,         \* per call: the notification sendNotification posts
    roleEnv,        \* process.env.ALLOWED_ROLE_ID
    adminEnv,       \* process.env.ADMIN_USER_IDS
    member,         \* per call: the member who ran the command
    calls,          \* calls started so far
    authCalls,      \* authenticate() calls started before the first send
    authDoneAt,     \* time the last successful authenticate stored its result
    firstSend       \* a control-plane request has been sent

vars == <<now, accessToken, tokenExpiry, presence, pc, kind, sentAt, bearer,
          snapshot, thrown, queryErr, reply, wrote, escaped, entry, ownAuth,
          sent, queries, answer, address, upstream, hostname, calls, authCalls,
          authDoneAt, firstSend, config, file, envChannel, lastSet, boot,
          timers, ticks, notice, roleEnv, adminEnv, member>>

permVars == <<roleEnv, adminEnv, member>>

configVars == <<config, file, envChannel, lastSet>>
timerVars == <<boot, timers, ticks>>

\* What the guard of a call found: whether a token string was held, and how
\* Date.now() compared with tokenExpiry ("none" when tokenExpiry was null).
Compare(t, e) ==
    IF e = NullExpiry THEN "none"
    ELSE IF t < e THEN "before" ELSE IF t = e THEN "at" ELSE "after"
NoEntry == [held |-> FALSE, clock |-> "none"]
NotYet == 0 - 1
NoPresence == [status |-> "", players |-> NoPlayers]

\* The state after construction, with SERVER_HOSTNAME = h,
\* NOTIFICATION_CHANNEL_ID = env, config.json holding text,
\* ALLOWED_ROLE_ID = role and ADMIN_USER_IDS = admins.
InitAccess(h, env, text, role, admins) ==
    /\ hostname = h
    /\ roleEnv = role
    /\ adminEnv = admins
    /\ member = [p \in Procs |-> NoUser]
    /\ envChannel = env
    /\ file = text
    /\ config = LoadConfig(envChannel, file)
    /\ lastSet = NullChannel
    /\ boot = "login"
    /\ notice = [p \in Procs |-> NoNotice]
    /\ timers = 0
    /\ ticks = 0
    /\ answer = [p \in Procs |-> NoCounts]
    /\ address = [p \in Procs |-> NoAddress]
    /\ upstream = [p \in Procs |-> NoAnswer]
    /\ now = 0
    /\ accessToken = NullToken
    /\ tokenExpiry = NullExpiry
    /\ presence = DefaultPresence
    /\ pc = [p \in Procs |-> "idle"]
    /\ kind = [p \in Procs |-> "status"]
    /\ sentAt = [p \in Procs |-> 0]
    /\ bearer = [p \in Procs |-> NullToken]
    /\ snapshot = [p \in Procs |-> ""]
    /\ thrown = [p \in Procs |-> NoError]
    /\ queryErr = [p \in Procs |-> NoError]
    /\ reply = [p \in Procs |-> NoReply]
    /\ wrote = [p \in Procs |-> NoPresence]
    /\ escaped = [p \in Procs |-> FALSE]
    /\ entry = [p \in Procs |-> NoEntry]
    /\ ownAuth = [p \in Procs |-> "none"]
    /\ sent = [p \in Procs |-> FALSE]
    /\ queries = [p \in Procs |-> 0]
    /\ calls = 0
    /\ authCalls = 0
    /\ authDoneAt = NotYet
    /\ firstSend = FALSE

InitProcess(h, env, text) == InitAccess(h, env, text, NoRole, NoAdmins)

InitEnv(h) == InitProcess(h, NullChannel, NoFile)

Init == InitEnv(NoHostname)

\* ------------------------------------------------------------------ client
\* ensureAuthenticated's condition: !this.accessToken || Date.now() >= this.tokenExpiry
NeedsAuth_StrictlyAfter(tok, exp, t) == ~Truthy(tok) \/ t > ToNumber(exp)
NeedsAuth_Always(tok, exp, t) == TRUE
NeedsAuth(tok, exp, t) == ~Truthy(tok) \/ t >= ToNumber(exp)

\* authenticate: this.tokenExpiry = Date.now() + (25 * 60 * 1000)
ExpiryAfter_FullLifetime(t) == t + LifetimeTicks
ExpiryAfter(t) == t + RefreshTicks

\* authenticate reads Date.now() after the await, when the response is there,
\* not when the request left.
ExpiryClock_RequestTime(sentTime, responseTime) == sentTime
ExpiryClock(sentTime, responseTime) == responseTime

\* authenticate: this.accessToken = response.data.access_token
TokenFromBody(body, iss, p) ==
    IF body = "access_token" THEN StringToken(iss, p) ELSE UndefinedToken
TokenBodies == {"access_token", "empty"}

\* authenticate: the assignment of line 28 is unconditional, so the token of
\* the response overwrites whatever is held.
StoredToken_KeepHeld(held, received) == IF Truthy(held) THEN held ELSE received
StoredToken(held, received) == received

\* authenticate's catch: the upstream detail is logged, the message is fixed.
AuthError_UpstreamDetail(d) == MkError(IF d # NoDetail THEN d ELSE AuthFailedMessage)
AuthError(d) == MkError(AuthFailedMessage)

\* The fallback message of each operation's catch.
Fallback(k) ==
    CASE k = "start" -> "Failed to start server"
      [] k = "stop" -> "Failed to stop server"
      [] OTHER -> "Failed to get resources"

\* new Error(error.response?.data?.detail || '<fallback>')
OpError_AlwaysFallback(k, d) ==
    [message |-> Fallback(k), code |-> "", timeoutWord |-> FALSE]
OpError(k, d) ==
    [message |-> IF d # NoDetail THEN d ELSE Fallback(k),
     code |-> "",
     timeoutWord |-> DetailHasTimeoutWord(d)]

\* The catch of an operation rethrows and leaves the session as it is.
SessionAfterOpError_Cleared(tok) == NullToken
SessionAfterOpError(tok) == tok

\* ------------------------------------------------------------------ handlers
\* !result.outputs?.public_ip, negated
HasPublicIp_OutputsOnly(snap) == snap \in {"outputsNoIp", "outputsEmptyIp", "outputsIp"}
HasPublicIp(snap) == snap = "outputsIp"

\* handlePingServer's catch: the hint shown in the Status field.
IsTimeout(e) == e.timeoutWord \/ e.code = "ETIMEDOUT"
IsRefused(e) == e.code = "ECONNREFUSED"
PingHint_RefusedFirst(e) ==
    IF IsRefused(e) THEN "Server process not started"
    ELSE IF IsTimeout(e) THEN "Starting up or not responding"
    ELSE "Server may be starting up or offline"
PingHint(e) ==
    IF IsTimeout(e) THEN "Starting up or not responding"
    ELSE IF IsRefused(e) THEN "Server process not started"
    ELSE "Server may be starting up or offline"

CannotReach(e) == Reply("Cannot Reach Server", PingHint(e))

\* interactionCreate's catch: the error embed.
ErrorEmbed(e) ==
    Reply("Error", IF e.message # "" THEN e.message ELSE "An unexpected error occurred")

\* updateBotStatus' outer catch: the API error is logged, the presence kept.
PresenceAfterApiError_Idle(pr) == Presence("idle")
PresenceAfterApiError(pr) == pr

\* The presence updateBotStatus sets when the snapshot has no public_ip.
TickOffline_Dnd == Presence("dnd")
TickOffline == Presence("idle")

\* The presence updateBotStatus sets when the protocol query rejects.
TickOnQueryError_Swallowed == NoPresence
TickOnQueryError == Presence("dnd")

\* startServer, stopServer and getResources begin with ensureAuthenticated and
\* the request: no lock, queue or in-flight check keeps a call out.
Admitted_SingleFlight(p, k) ==
    ~\E q \in Procs \ {p} : pc[q] \in {"auth", "op"} /\ kind[q] \in {"start", "stop"}
Admitted(p, k) == TRUE

\* A handler that never calls the API client starts in slot p: what the slot
\* recorded of its previous call is cleared, the client is left alone.
NoClientCall(p) ==
    /\ snapshot' = [snapshot EXCEPT ![p] = ""]
    /\ thrown' = [thrown EXCEPT ![p] = NoError]
    /\ queryErr' = [queryErr EXCEPT ![p] = NoError]
    /\ wrote' = [wrote EXCEPT ![p] = NoPresence]
    /\ escaped' = [escaped EXCEPT ![p] = FALSE]
    /\ queries' = [queries EXCEPT ![p] = 0]
    /\ answer' = [answer EXCEPT ![p] = NoCounts]
    /\ address' = [address EXCEPT ![p] = NoAddress]
    /\ upstream' = [upstream EXCEPT ![p] = NoAnswer]
    /\ ownAuth' = [ownAuth EXCEPT ![p] = "none"]
    /\ sent' = [sent EXCEPT ![p] = FALSE]
    /\ UNCHANGED <<now, accessToken, tokenExpiry, presence, sentAt, bearer,
                   entry, hostname, authCalls, authDoneAt, firstSend>>

\* sendNotification's catch logs the delivery error; the reply stays.
ReplyAfterNotifyError_Shown(r) == Reply("Error", "Failed to send notification")
ReplyAfterNotifyError(r) == r

\* ------------------------------------------------------------------ actions
\* The handler of call p calls sendNotification: with no channel configured
\* it returns at once, else the post to the channel is awaited.
Notify(p, cfg) ==
    LET ch == NotifyChannel(cfg, envChannel)
    IN IF ch = NullChannel
       THEN /\ pc' = [pc EXCEPT ![p] = "done"]
            /\ notice' = [notice EXCEPT ![p] = NoNotice]
       ELSE /\ pc' = [pc EXCEPT ![p] = "notify"]
            /\ notice' = [notice EXCEPT ![p] = Notice(ch, "pending")]

\* The ready handler awaits the initial updateBotStatus; when that run ends
\* (however it ends) the handler goes on to setInterval.
Resume(p) ==
    /\ IF boot = "initial" /\ kind[p] = "tick" /\ pc'[p] = "done"
       THEN /\ boot' = "ready"
            /\ timers' = timers + 1
       ELSE UNCHANGED <<boot, timers>>
    /\ UNCHANGED <<ticks, configVars, permVars>>

\* The control-plane request of call p leaves with the token held right now.
SendOp(p, tok) ==
    /\ bearer' = [bearer EXCEPT ![p] = tok]
    /\ sent' = [sent EXCEPT ![p] = TRUE]
    /\ sentAt' = [sentAt EXCEPT ![p] = now]
    /\ firstSend' = TRUE

\* The HTTP exchange of call p is over: nothing of it stays in flight.
Finish(p) ==
    /\ bearer' = [bearer EXCEPT ![p] = NullToken]
    /\ sentAt' = [sentAt EXCEPT ![p] = 0]
    /\ entry' = [entry EXCEPT ![p] = NoEntry]

\* A command arrives (or the timer fires) and its handler calls the client
\* operation, which runs ensureAuthenticated.
Enter(p, k) ==
    /\ pc[p] \in {"idle", "done"}
    /\ Admitted(p, k)
    /\ kind' = [kind EXCEPT ![p] = k]
    /\ entry' = [entry EXCEPT ![p] = [held |-> accessToken.set = "string", clock |-> Compare(now, tokenExpiry)]]
    /\ snapshot' = [snapshot EXCEPT ![p] = ""]
    /\ thrown' = [thrown EXCEPT ![p] = NoError]
    /\ queryErr' = [queryErr EXCEPT ![p] = NoError]
    /\ reply' = [reply EXCEPT ![p] = NoReply]
    /\ wrote' = [wrote EXCEPT ![p] = NoPresence]
    /\ escaped' = [escaped EXCEPT ![p] = FALSE]
    /\ queries' = [queries EXCEPT ![p] = 0]
    /\ answer' = [answer EXCEPT ![p] = NoCounts]
    /\ address' = [address EXCEPT ![p] = NoAddress]
    /\ upstream' = [upstream EXCEPT ![p] = NoAnswer]
    /\ notice' = [notice EXCEPT ![p] = NoNotice]
    /\ IF NeedsAuth(accessToken, tokenExpiry, now)
       THEN /\ pc' = [pc EXCEPT ![p] = "auth"]
            /\ ownAuth' = [ownAuth EXCEPT ![p] = "pending"]
            /\ authCalls' = IF firstSend \/ authCalls >= MaxCalls THEN authCalls
                            ELSE authCalls + 1
            /\ sentAt' = [sentAt EXCEPT ![p] = now]
            /\ bearer' = [bearer EXCEPT ![p] = NullToken]
            /\ sent' = [sent EXCEPT ![p] = FALSE]
            /\ UNCHANGED firstSend
       ELSE /\ pc' = [pc EXCEPT ![p] = "op"]
            /\ ownAuth' = [ownAuth EXCEPT ![p] = "none"]
            /\ SendOp(p, accessToken)
            /\ UNCHANGED authCalls
    /\ UNCHANGED <<now, accessToken, tokenExpiry, presence, authDoneAt>>
    /\ UNCHANGED hostname

\* A call of the bounded run: at most MaxCalls calls are made.
Invoke(p, k) ==
    /\ UNCHANGED <<configVars, timerVars, permVars>>
    /\ calls < MaxCalls
    /\ calls' = calls + 1
    /\ Enter(p, k)

\* A reconciling run where the address is observed: at most MaxRuns of them.
Reconcile(p, k) ==
    /\ UNCHANGED <<configVars, timerVars, permVars>>
    /\ calls < MaxRuns
    /\ calls' = calls + 1
    /\ Enter(p, k)

\* The token endpoint answered 2xx: authenticate stores the result, the guard
\* returns and the operation sends its request.
AuthOk(p, iss, body) ==
    /\ UNCHANGED notice
    /\ UNCHANGED <<configVars, timerVars, permVars>>
    /\ pc[p] = "auth"
    /\ iss \in sentAt[p]..now
    /\ accessToken' = StoredToken(accessToken, TokenFromBody(body, iss, p))
    /\ tokenExpiry' = ExpiryAfter(ExpiryClock(sentAt[p], now))
    /\ authDoneAt' = now
    /\ ownAuth' = [ownAuth EXCEPT ![p] = "ok"]
    /\ pc' = [pc EXCEPT ![p] = "op"]
    /\ SendOp(p, accessToken')
    /\ UNCHANGED <<now, presence, kind, snapshot, thrown, queryErr, reply, wrote,
                   escaped, entry, queries, calls, authCalls>>
    /\ UNCHANGED <<answer, address, upstream, hostname>>

\* The handler of call p ends because the client operation threw e.
\*   start, stop, status: the error leaves the handler; interactionCreate's
\*     catch edits the reply into the error embed.
\*   ping-server: handlePingServer's own catch renders it.
\*   tick: updateBotStatus logs it and keeps the presence.
Throw(p, e) ==
    /\ thrown' = [thrown EXCEPT ![p] = e]
    /\ pc' = [pc EXCEPT ![p] = "done"]
    /\ reply' = [reply EXCEPT ![p] =
            CASE kind[p] = "ping-server" -> CannotReach(e)
              [] kind[p] = "tick" -> NoReply
              [] OTHER -> ErrorEmbed(e)]
    /\ escaped' = [escaped EXCEPT ![p] = kind[p] \in {"start", "stop", "status"}]
    /\ presence' = IF kind[p] = "tick" THEN PresenceAfterApiError(presence) ELSE presence

\* The token request failed (non-2xx or network error).
AuthFail(p, d) ==
    /\ UNCHANGED notice
    /\ Finish(p)
    /\ pc[p] = "auth"
    /\ ownAuth' = [ownAuth EXCEPT ![p] = "failed"]
    /\ Throw(p, AuthError(d))
    /\ UNCHANGED <<now, accessToken, tokenExpiry, kind, snapshot, queryErr, wrote, sent, queries, calls,
                   authCalls, authDoneAt, firstSend>>
    /\ UNCHANGED <<answer, address, upstream, hostname>>
    /\ Resume(p)

\* The control-plane request failed: non-2xx, network error, or the 900 s
\* client timeout of start and stop (no response, hence no detail).
OpFail(p, d) ==
    /\ UNCHANGED notice
    /\ Finish(p)
    /\ pc[p] = "op"
    /\ Throw(p, OpError(kind[p], d))
    /\ accessToken' = SessionAfterOpError(accessToken)
    /\ UNCHANGED <<now, tokenExpiry, kind, snapshot, queryErr, wrote, ownAuth, sent, queries, calls,
                   authCalls, authDoneAt, firstSend>>
    /\ upstream' = [upstream EXCEPT ![p] = Failure(d)]
    /\ UNCHANGED <<answer, address, hostname>>
    /\ Resume(p)

\* startServer / stopServer returned: the success embed replaces the reply.
StartStopOk(p, body) ==
    /\ Finish(p)
    /\ pc[p] = "op"
    /\ kind[p] \in {"start", "stop"}
    /\ reply' = [reply EXCEPT ![p] =
            IF kind[p] = "start" THEN Reply("Server Started Successfully!", "")
            ELSE Reply("Server Stopped Successfully", "")]
    /\ Notify(p, config)
    /\ UNCHANGED <<now, accessToken, tokenExpiry, presence, kind, thrown, queryErr, wrote, escaped, ownAuth, sent,
                   queries, calls, authCalls, authDoneAt, firstSend>>
    /\ snapshot' = [snapshot EXCEPT ![p] = body]
    /\ upstream' = [upstream EXCEPT ![p] = Success(body, "")]
    /\ UNCHANGED <<answer, address, hostname>>
    /\ Resume(p)

\* getResources returned to handleStatus.
StatusOk(p, snap) ==
    /\ UNCHANGED notice
    /\ Finish(p)
    /\ pc[p] = "op"
    /\ kind[p] = "status"
    /\ pc' = [pc EXCEPT ![p] = "done"]
    /\ snapshot' = [snapshot EXCEPT ![p] = snap]
    /\ reply' = [reply EXCEPT ![p] = Reply("Tetracubed Server Status", snap)]
    /\ UNCHANGED <<now, accessToken, tokenExpiry, presence, kind, thrown, queryErr, wrote, escaped, ownAuth, sent, queries,
                   calls, authCalls, authDoneAt, firstSend>>
    /\ upstream' = [upstream EXCEPT ![p] = Success(snap, "")]
    /\ UNCHANGED <<answer, address, hostname>>
    /\ Resume(p)

\* getResources returned to handlePingServer or updateBotStatus.
ResourcesOk(p, snap, ip) ==
    /\ UNCHANGED notice
    /\ Finish(p)
    /\ pc[p] = "op"
    /\ kind[p] \in {"ping-server", "tick"}
    /\ snapshot' = [snapshot EXCEPT ![p] = snap]
    /\ IF HasPublicIp(snap)
       THEN /\ pc' = [pc EXCEPT ![p] = "query"]
            /\ queries' = [queries EXCEPT ![p] = @ + 1]
            /\ address' = [address EXCEPT ![p] = QueryTarget(hostname, ip)]
            /\ upstream' = [upstream EXCEPT ![p] = Success(snap, ip)]
            /\ UNCHANGED <<reply, presence, wrote>>
       ELSE /\ pc' = [pc EXCEPT ![p] = "done"]
            /\ UNCHANGED <<queries, address>>
            /\ upstream' = [upstream EXCEPT ![p] = Success(snap, "")]
            /\ IF kind[p] = "tick"
               THEN /\ presence' = TickOffline
                    /\ wrote' = [wrote EXCEPT ![p] = TickOffline]
                    /\ UNCHANGED reply
               ELSE /\ reply' = [reply EXCEPT ![p] =
                            Reply("Server Offline", "Infrastructure not provisioned")]
                    /\ UNCHANGED <<presence, wrote>>
    /\ UNCHANGED <<now, accessToken, tokenExpiry, kind, thrown,
                   queryErr, escaped, ownAuth, sent, calls, authCalls,
                   authDoneAt, firstSend>>
    /\ UNCHANGED <<answer, hostname>>
    /\ Resume(p)

\* The game-protocol status query answered.
QueryOk(p, pl) ==
    /\ UNCHANGED notice
    /\ pc[p] = "query"
    /\ pc' = [pc EXCEPT ![p] = "done"]
    /\ IF kind[p] = "tick"
       THEN /\ presence' = [status |-> "online", players |-> PlayerCount(pl)]
            /\ wrote' = [wrote EXCEPT ![p] = [status |-> "online", players |-> PlayerCount(pl)]]
            /\ UNCHANGED reply
       ELSE /\ reply' = [reply EXCEPT ![p] =
                    [title |-> "Server Online", text |-> "", players |-> PlayerCount(pl)]]
            /\ UNCHANGED <<presence, wrote>>
    /\ UNCHANGED <<now, accessToken, tokenExpiry, kind, sentAt, bearer, snapshot,
                   thrown, queryErr, escaped, entry, ownAuth, sent, queries, calls,
                   authCalls, authDoneAt, firstSend>>
    /\ answer' = [answer EXCEPT ![p] = pl]
    /\ UNCHANGED <<address, upstream, hostname>>
    /\ Resume(p)

\* The game-protocol status query rejected with e.
QueryFail(p, e) ==
    /\ UNCHANGED notice
    /\ pc[p] = "query"
    /\ pc' = [pc EXCEPT ![p] = "done"]
    /\ queryErr' = [queryErr EXCEPT ![p] = e]
    /\ IF kind[p] = "tick"
       THEN /\ presence' = IF TickOnQueryError = NoPresence THEN presence
                           ELSE TickOnQueryError
            /\ wrote' = [wrote EXCEPT ![p] = TickOnQueryError]
            /\ UNCHANGED reply
       ELSE /\ reply' = [reply EXCEPT ![p] = CannotReach(e)]
            /\ UNCHANGED <<presence, wrote>>
    /\ UNCHANGED <<now, accessToken, tokenExpiry, kind, sentAt, bearer, snapshot,
                   thrown, escaped, entry, ownAuth, sent, queries, calls, authCalls,
                   authDoneAt, firstSend>>
    /\ UNCHANGED <<answer, address, upstream, hostname>>
    /\ Resume(p)

\* Time passes.  A start or stop request cannot outlive its client timeout.
Tick ==
    /\ UNCHANGED notice
    /\ UNCHANGED <<configVars, timerVars, permVars>>
    /\ now < MaxTime
    /\ \A p \in Procs :
          (pc[p] = "op" /\ kind[p] \in {"start", "stop"})
              => now < sentAt[p] + StartStopTimeoutTicks
    /\ now' = now + 1
    /\ UNCHANGED <<accessToken, tokenExpiry, presence, pc, kind, sentAt, bearer,
                   snapshot, thrown, queryErr, reply, wrote, escaped, entry,
                   ownAuth, sent, queries, calls, authCalls, authDoneAt, firstSend>>
    /\ UNCHANGED <<answer, address, upstream, hostname>>

Next ==
    \/ \E p \in SeqProcs, k \in ClientKinds : Invoke(p, k)
    \/ \E p \in SeqProcs, iss \in 0..MaxTime, body \in TokenBodies : AuthOk(p, iss, body)
    \/ \E p \in SeqProcs, d \in Details : AuthFail(p, d)
    \/ \E p \in SeqProcs, d \in ClientDetails : OpFail(p, d)
    \/ \E p \in SeqProcs, body \in StartStopBodies : StartStopOk(p, body)
    \/ \E p \in SeqProcs, snap \in Snapshots : StatusOk(p, snap)
    \/ Tick

\* The API client under the commands that use one operation each, one call
\* after another, with the clock running.
Spec == Init /\ [][Next]_vars

\* The handlers that reconcile the two signals (ping-server and the periodic
\* tick) next to a plain command; the clock stands still, since none of their
\* decisions reads it.
NextHandlers ==
    \/ \E p \in Procs, k \in HandlerKinds : Invoke(p, k)
    \/ \E p \in Procs, body \in TokenBodies : AuthOk(p, now, body)
    \/ \E p \in Procs, d \in Details : AuthFail(p, d)
    \/ \E p \in Procs, d \in Details : OpFail(p, d)
    \/ \E p \in Procs, snap \in Snapshots : StatusOk(p, snap)
    \/ \E p \in Procs, snap \in Snapshots : ResourcesOk(p, snap, "1.2.3.4")
    \/ \E p \in Procs, pl \in PlayerCounts : QueryOk(p, pl)
    \/ \E p \in Procs, e \in QueryErrors : QueryFail(p, e)

SpecHandlers == Init /\ [][NextHandlers]_vars

\* The two reconciling paths with SERVER_HOSTNAME set or unset and a public_ip
\* that changes from one run to the next.
InitAddress == \E h \in Hostnames : InitEnv(h)

NextAddress ==
    \/ \E p \in Procs, k \in {"ping-server", "tick"} : Reconcile(p, k)
    \/ \E p \in Procs, body \in TokenBodies : AuthOk(p, now, body)
    \/ \E p \in Procs, d \in Details : AuthFail(p, d)
    \/ \E p \in Procs, d \in Details : OpFail(p, d)
    \/ \E p \in Procs, snap \in Snapshots, ip \in Ips : ResourcesOk(p, snap, ip)
    \/ \E p \in Procs, pl \in PlayerCounts : QueryOk(p, pl)
    \/ \E p \in Procs, e \in QueryErrors : QueryFail(p, e)

SpecAddress == InitAddress /\ [][NextAddress]_vars

\* handleSetNotificationChannel: a user without permission is refused; else
\* the channel is stored in memory, saveConfig writes config.json (a write
\* error is logged and nothing more) and the success embed is the reply.
SetNotificationChannel(p, c, u, writeOk) ==
    /\ member' = [member EXCEPT ![p] = u]
    /\ UNCHANGED <<roleEnv, adminEnv>>
    /\ calls < MaxCalls
    /\ calls' = calls + 1
    /\ pc[p] \in {"idle", "done"}
    /\ kind' = [kind EXCEPT ![p] = "set-notification-channel"]
    /\ IF HasPermission(roleEnv, adminEnv, u)
       THEN /\ config' = [config EXCEPT !.notificationChannelId = c]
            /\ file' = SavedFile(file, config', writeOk)
            /\ lastSet' = c
            /\ reply' = [reply EXCEPT ![p] = Reply("Notification Channel Set", c)]
            /\ Notify(p, config')
       ELSE /\ reply' = [reply EXCEPT ![p] =
                    Reply("", PermissionDenied)]
            /\ pc' = [pc EXCEPT ![p] = "done"]
            /\ notice' = [notice EXCEPT ![p] = NoNotice]
            /\ UNCHANGED <<config, file, lastSet>>
    /\ NoClientCall(p)
    /\ UNCHANGED <<envChannel, timerVars>>

\* sendNotification is over: the embed was posted, or fetching the channel or
\* posting to it failed (or the channel is not text-based) and the error, if
\* any, was logged.  The handler ends either way.
NotifyDone(p, delivered) ==
    /\ pc[p] = "notify"
    /\ pc' = [pc EXCEPT ![p] = "done"]
    /\ notice' = [notice EXCEPT ![p].delivered = IF delivered THEN "sent" ELSE "failed"]
    /\ reply' = [reply EXCEPT ![p] = IF delivered THEN @ ELSE ReplyAfterNotifyError(@)]
    /\ UNCHANGED <<now, accessToken, tokenExpiry, presence, kind, sentAt, bearer,
                   snapshot, thrown, queryErr, wrote, escaped, entry, ownAuth, sent,
                   queries, answer, address, upstream, hostname, calls, authCalls,
                   authDoneAt, firstSend, configVars, timerVars, permVars>>

\* The process is started again: the module-level load runs on what
\* config.json now holds, and nothing else of the old process is kept.
Restart ==
    /\ member' = [p \in Procs |-> NoUser]
    /\ UNCHANGED <<roleEnv, adminEnv>>
    /\ notice' = [p \in Procs |-> NoNotice]
    /\ config' = LoadConfig(envChannel, file)
    /\ pc' = [p \in Procs |-> "idle"]
    /\ kind' = [p \in Procs |-> "status"]
    /\ reply' = [p \in Procs |-> NoReply]
    /\ UNCHANGED <<now, accessToken, tokenExpiry, presence, sentAt, bearer, snapshot,
                   thrown, queryErr, wrote, escaped, entry, ownAuth, sent, queries,
                   answer, address, upstream, hostname, calls, authCalls, authDoneAt,
                   firstSend, file, envChannel, lastSet, timerVars>>

\* The notification-channel setting across commands and restarts.
InitConfig ==
    \E env \in EnvChannels, text \in FileTexts : InitProcess(NoHostname, env, text)

NextConfig ==
    \/ \E p \in SeqProcs, c \in ChannelIds, u \in Users, writeOk \in BOOLEAN :
          SetNotificationChannel(p, c, u, writeOk)
    \/ \E p \in SeqProcs, delivered \in BOOLEAN : NotifyDone(p, delivered)
    \/ Restart

SpecConfig == InitConfig /\ [][NextConfig]_vars

\* The client emits 'ready': the handler logs and awaits registerCommands,
\* whose rest.put is now in flight.
Ready ==
    /\ UNCHANGED notice
    /\ boot = "login"
    /\ boot' = "registering"
    /\ UNCHANGED <<now, accessToken, tokenExpiry, presence, pc, kind, sentAt, bearer,
                   snapshot, thrown, queryErr, reply, wrote, escaped, entry, ownAuth,
                   sent, queries, answer, address, upstream, hostname, calls,
                   authCalls, authDoneAt, firstSend, configVars, timers, ticks,
                   permVars>>

\* registerCommands is over (an error of rest.put is caught and logged): the
\* ready handler calls updateBotStatus, which calls getResources.
RegisterDone(p) ==
    /\ boot = "registering"
    /\ boot' = "initial"
    /\ Enter(p, "tick")
    /\ UNCHANGED <<calls, configVars, timers, ticks, permVars>>

\* The interval fires: updateBotStatus is called, whether or not an earlier
\* run is still waiting; a run made while slot p is taken is not followed.
TimerFire(p) ==
    /\ timers > 0
    /\ ticks' = (ticks + 1) % 2
    /\ IF pc[p] \in {"idle", "done"}
       THEN Enter(p, "tick")
       ELSE UNCHANGED <<now, accessToken, tokenExpiry, presence, pc, kind, sentAt,
                        bearer, snapshot, thrown, queryErr, reply, wrote, escaped,
                        entry, ownAuth, sent, queries, answer, address, upstream,
                        hostname, authCalls, authDoneAt, firstSend, notice>>
    /\ UNCHANGED <<calls, configVars, boot, timers, permVars>>

\* Start-up and the periodic reconciliation.
NextTimer ==
    \/ Ready
    \/ \E p \in SeqProcs : RegisterDone(p)
    \/ \E p \in SeqProcs : TimerFire(p)
    \/ \E p \in SeqProcs, body \in TokenBodies : AuthOk(p, now, body)
    \/ \E p \in SeqProcs, d \in Details : AuthFail(p, d)
    \/ \E p \in SeqProcs, d \in Details : OpFail(p, d)
    \/ \E p \in SeqProcs, snap \in Snapshots : ResourcesOk(p, snap, "1.2.3.4")
    \/ \E p \in SeqProcs, pl \in PlayerCounts : QueryOk(p, pl)
    \/ \E p \in SeqProcs, e \in QueryErrors : QueryFail(p, e)

\* What the code schedules by itself: the 'ready' event once logged in, the
\* end of rest.put, every firing of the interval, and the end of a protocol
\* query (its 3000 ms timeout).  The requests to /token and to
\* /tetracubed/resources carry no timeout, so nothing makes them end.
FairTimer ==
    /\ WF_vars(Ready)
    /\ WF_vars(\E p \in SeqProcs : RegisterDone(p))
    /\ WF_vars(\E p \in SeqProcs : TimerFire(p))
    /\ WF_vars(\E p \in SeqProcs :
                  \/ \E pl \in PlayerCounts : QueryOk(p, pl)
                  \/ \E e \in QueryErrors : QueryFail(p, e))

SpecTimer == Init /\ [][NextTimer]_vars /\ FairTimer

\* Start and stop commands that overlap: two call slots, the clock standing
\* still (a token once stored stays fresh).
NextRace ==
    \/ \E p \in Procs, k \in {"start", "stop"} : Invoke(p, k)
    \/ \E p \in Procs, body \in TokenBodies : AuthOk(p, now, body)
    \/ \E p \in Procs, d \in Details : AuthFail(p, d)
    \/ \E p \in Procs, d \in Details : OpFail(p, d)
    \/ \E p \in Procs, body \in StartStopBodies : StartStopOk(p, body)

SpecRace == Init /\ [][NextRace]_vars

\* handleStart / handleStop for member u: without permission the command is
\* answered with the refusal and the handler returns; with it the handler
\* goes on to the client operation.
Command(p, k, u) ==
    /\ calls < MaxCalls
    /\ calls' = calls + 1
    /\ member' = [member EXCEPT ![p] = u]
    /\ IF HasPermission(roleEnv, adminEnv, u)
       THEN Enter(p, k)
       ELSE /\ pc[p] \in {"idle", "done"}
            /\ kind' = [kind EXCEPT ![p] = k]
            /\ pc' = [pc EXCEPT ![p] = "done"]
            /\ reply' = [reply EXCEPT ![p] = Reply("", PermissionDenied)]
            /\ notice' = [notice EXCEPT ![p] = NoNotice]
            /\ NoClientCall(p)
    /\ UNCHANGED <<configVars, timerVars, roleEnv, adminEnv>>

\* Commands of members with and without permission, under each setting of
\* ALLOWED_ROLE_ID and ADMIN_USER_IDS.
InitPermission ==
    \E env \in EnvChannels, role \in RoleEnvs, admins \in AdminEnvs :
        InitAccess(NoHostname, env, NoFile, role, admins)

NextPermission ==
    \/ \E p \in SeqProcs, k \in {"start", "stop"}, u \in Users : Command(p, k, u)
    \/ \E p \in SeqProcs, c \in ChannelIds, u \in Users :
          SetNotificationChannel(p, c, u, TRUE)
    \/ \E p \in SeqProcs : AuthOk(p, now, "access_token")
    \/ \E p \in SeqProcs : AuthFail(p, NoDetail)
    \/ \E p \in SeqProcs : OpFail(p, NoDetail)
    \/ \E p \in SeqProcs : StartStopOk(p, "publicIp")
    \/ \E p \in SeqProcs, delivered \in BOOLEAN : NotifyDone(p, delivered)

SpecPermission == InitPermission /\ [][NextPermission]_vars

\* Status commands that overlap while the clock runs: authenticate calls
\* sent and answered at different times, in either order.
NextExpiry ==
    \/ \E p \in Procs : Invoke(p, "status")
    \/ \E p \in Procs, body \in TokenBodies : AuthOk(p, now, body)
    \/ \E p \in Procs : AuthFail(p, NoDetail)
    \/ \E p \in Procs : OpFail(p, NoDetail)
    \/ \E p \in Procs : StatusOk(p, "message")
    \/ Tick

SpecExpiry == Init /\ [][NextExpiry]_vars

\* Start and stop commands with notifications: the channel comes from the
\* environment or from a set-notification-channel command.
InitNotify == \E env \in EnvChannels : InitProcess(NoHostname, env, NoFile)

NextNotify ==
    \/ \E p \in Procs, k \in {"start", "stop"} : Invoke(p, k)
    \/ \E p \in Procs : AuthOk(p, now, "access_token")
    \/ \E p \in Procs : AuthFail(p, NoDetail)
    \/ \E p \in Procs, d \in Details : OpFail(p, d)
    \/ \E p \in Procs, body \in StartStopBodies : StartStopOk(p, body)
    \/ \E p \in Procs, delivered \in BOOLEAN : NotifyDone(p, delivered)
    \/ \E p \in Procs, c \in ChannelIds : SetNotificationChannel(p, c, AdminUser, TRUE)

SpecNotify == InitNotify /\ [][NextNotify]_vars

\* What the code schedules by itself for a start or stop command: its
\* request to /tetracubed/start or /stop ends, by a response or by the
\* 900000 ms timeout.  The request to /token carries no timeout.
FairCommands ==
    WF_vars(\E p \in Procs :
               \/ \E d \in Details : OpFail(p, d)
               \/ \E body \in StartStopBodies : StartStopOk(p, body))

SpecCommands == Init /\ [][NextRace]_vars /\ FairCommands

\* ------------------------------------------------------------------ claims
InClient(p) == pc[p] \in {"auth", "op"}
GuardFoundValid(p) == entry[p].held /\ entry[p].clock = "before"
GuardFoundStale(p) == ~entry[p].held \/ entry[p].clock \in {"none", "at", "after"}

\* C1 as stated: exactly one authenticate call is made before the first
\* control-plane request is sent, and a call that passes the guard while a
\* token is held and now < tokenExpiry makes none.
C1_ExactlyOneAuthBeforeFirstSend ==
    /\ firstSend => authCalls = 1
    /\ \A p \in Procs : (InClient(p) /\ GuardFoundValid(p)) => ownAuth[p] = "none"

\* C1 amended: until the first control-plane request is sent every call made
\* has started one authenticate call (so at least one, and more than one when
\* an earlier authenticate failed); a call that passes the guard while a token
\* is held and now < tokenExpiry makes none.
C1_AuthBeforeFirstSend ==
    /\ ~firstSend => authCalls = calls
    /\ firstSend => authCalls >= 1
    /\ \A p \in Procs : (InClient(p) /\ GuardFoundValid(p)) => ownAuth[p] = "none"

C1_Witness ==
    /\ firstSend
    /\ authCalls = 2
    /\ \E p \in Procs : pc[p] = "op" /\ GuardFoundValid(p) /\ ownAuth[p] = "none"

\* C2: a call that finds no token, or now >= tokenExpiry (now = tokenExpiry
\* included), starts an authenticate call, and its control-plane request is
\* sent only once that authenticate has succeeded.
C2_StaleGuardAuthenticatesFirst ==
    \A p \in Procs :
        /\ (InClient(p) /\ GuardFoundStale(p)) =>
              /\ ownAuth[p] # "none"
              /\ sent[p] => ownAuth[p] = "ok"
        /\ (sent[p] /\ ownAuth[p] # "none") => ownAuth[p] = "ok"
        /\ pc[p] = "auth" => ~sent[p]

C2_Witness ==
    \E p \in Procs :
        /\ pc[p] = "op"
        /\ entry[p].held
        /\ entry[p].clock = "at"
        /\ ownAuth[p] = "ok"
        /\ sent[p]

\* C3: accessToken is non-null whenever tokenExpiry is non-null, also after a
\* 2xx token response without access_token.
C3_TokenHeldWheneverExpirySet ==
    tokenExpiry # NullExpiry => accessToken.set = "string"

\* C4: the bearer token of every control-plane request stays within its
\* 1800-second upstream lifetime while the request is in flight, over the 900
\* seconds a start or stop request may take.
C4_BearerAliveInFlight ==
    \A p \in Procs :
        (/\ pc[p] = "op"
         /\ bearer[p].set = "string"
         /\ now <= sentAt[p] + 900000 \div TickMs)
            => now < bearer[p].iss + (30 * 60 * 1000) \div TickMs

\* C5 as stated: tokenExpiry is the token's issuance time plus 1500 seconds.
C5_ExpiryFromIssuance ==
    accessToken.set = "string" => tokenExpiry = accessToken.iss + RefreshTicks

\* C5 amended: tokenExpiry is the time at which authenticate stored the token
\* response plus 1500 seconds, never that time plus the 1800-second lifetime;
\* it is unset until an authenticate has succeeded.
C5_ExpiryFromResponseTime ==
    /\ authDoneAt = NotYet => tokenExpiry = NullExpiry
    /\ authDoneAt # NotYet =>
          /\ tokenExpiry = authDoneAt + (25 * 60 * 1000) \div TickMs
          /\ tokenExpiry # authDoneAt + (30 * 60 * 1000) \div TickMs

C5_Witness ==
    /\ accessToken.set = "string"
    /\ accessToken.iss < authDoneAt
    /\ tokenExpiry = authDoneAt + RefreshTicks
    /\ tokenExpiry > accessToken.iss + RefreshTicks

\* C6: a failed token request throws the generic message, leaves accessToken
\* and tokenExpiry as they were, and the calling operation sends no
\* control-plane request.
C6_AuthFailureStep ==
    \A p \in Procs :
        (pc[p] = "auth" /\ ownAuth'[p] = "failed") =>
            /\ accessToken' = accessToken
            /\ tokenExpiry' = tokenExpiry
            /\ thrown'[p].message = "Failed to authenticate with Tetracubed API"
            /\ sent'[p] = FALSE
            /\ pc'[p] = "done"
C6_AuthFailureLeavesSession ==
    /\ [][C6_AuthFailureStep]_vars
    /\ [](\A p \in Procs : ownAuth[p] = "failed" => (~sent[p] /\ pc[p] = "done"))

C6_Witness ==
    \E p \in Procs :
        /\ ownAuth[p] = "failed"
        /\ pc[p] = "done"
        /\ accessToken.set = "string"
        /\ thrown[p].message = AuthFailedMessage

Reconciles(p) == kind[p] \in {"ping-server", "tick"}
GotSnapshot(p) == pc[p] \in {"query", "done"} /\ snapshot[p] # ""

\* C7: a snapshot without outputs.public_ip makes both paths derive Offline
\* (the tick writes presence 'idle') and make no game-protocol query.
C7_NoIpMeansOfflineNoQuery ==
    \A p \in Procs :
        (Reconciles(p) /\ GotSnapshot(p) /\ snapshot[p] # "outputsIp") =>
            /\ pc[p] = "done"
            /\ queries[p] = 0
            /\ queryErr[p] = NoError
            /\ IF kind[p] = "tick"
               THEN wrote[p].status = "idle" /\ reply[p] = NoReply
               ELSE reply[p].title = "Server Offline" /\ wrote[p] = NoPresence

C7_Witness ==
    \E p, q \in Procs :
        /\ kind[p] = "tick" /\ pc[p] = "done" /\ snapshot[p] = "outputsNoIp"
        /\ wrote[p].status = "idle" /\ queries[p] = 0
        /\ kind[q] = "ping-server" /\ pc[q] = "done" /\ snapshot[q] = "message"
        /\ reply[q].title = "Server Offline" /\ queries[q] = 0

QueryFailed(p) ==
    /\ Reconciles(p)
    /\ pc[p] = "done"
    /\ snapshot[p] = "outputsIp"
    /\ queryErr[p] # NoError

\* C8: with public_ip present, a failed game-protocol query gives Starting on
\* both paths (presence 'dnd', or the 'Cannot Reach Server' reply) and no
\* error leaves the reconciler or the handler.
C8_QueryFailureMeansStarting ==
    \A p \in Procs :
        QueryFailed(p) =>
            /\ ~escaped[p]
            /\ thrown[p] = NoError
            /\ IF kind[p] = "tick"
               THEN wrote[p].status = "dnd"
               ELSE reply[p].title = "Cannot Reach Server"

C8_Witness ==
    \E p, q \in Procs :
        /\ QueryFailed(p) /\ kind[p] = "tick" /\ wrote[p].status = "dnd"
        /\ QueryFailed(q) /\ kind[q] = "ping-server"
        /\ reply[q].title = "Cannot Reach Server"

\* C9: a failed control-plane call of any command is shown as an error
\* message carrying the error's message, never as the Starting state; Starting
\* is shown only when the snapshot had public_ip and the protocol query failed.
C9_ControlPlaneFailureShownAsError ==
    \A p \in Procs :
        (pc[p] = "done" /\ kind[p] \in Commands) =>
            /\ thrown[p] # NoError =>
                  /\ reply[p].title = "Error"
                  /\ reply[p].text = thrown[p].message
            /\ reply[p].title = "Cannot Reach Server" =>
                  (snapshot[p] = "outputsIp" /\ queryErr[p] # NoError)

RefusedError(e) == e.code = "ECONNREFUSED"
TimeoutError(e) == e.code = "ETIMEDOUT" \/ e.timeoutWord
PingQueryFailed(p) == QueryFailed(p) /\ kind[p] = "ping-server"

\* C10 as stated: on the on-demand path a connection-refused error always
\* gives 'Server process not started', a timeout 'Starting up or not
\* responding', any other error 'Server may be starting up or offline'.
C10_HintByFailureKind ==
    \A p \in Procs :
        PingQueryFailed(p) =>
            /\ RefusedError(queryErr[p]) => reply[p].text = "Server process not started"
            /\ (TimeoutError(queryErr[p]) /\ ~RefusedError(queryErr[p]))
                  => reply[p].text = "Starting up or not responding"
            /\ (~TimeoutError(queryErr[p]) /\ ~RefusedError(queryErr[p]))
                  => reply[p].text = "Server may be starting up or offline"

\* C10 amended: the timeout test comes first: an error whose message contains
\* 'timeout' or whose code is ETIMEDOUT gives 'Starting up or not responding'
\* even when its code is ECONNREFUSED; an ECONNREFUSED error that is no
\* timeout gives 'Server process not started'; any other error the generic
\* hint.
C10_HintTimeoutFirst ==
    \A p \in Procs :
        PingQueryFailed(p) =>
            /\ TimeoutError(queryErr[p]) => reply[p].text = "Starting up or not responding"
            /\ (RefusedError(queryErr[p]) /\ ~TimeoutError(queryErr[p]))
                  => reply[p].text = "Server process not started"
            /\ (~TimeoutError(queryErr[p]) /\ ~RefusedError(queryErr[p]))
                  => reply[p].text = "Server may be starting up or offline"

C10_Witness ==
    \E p \in Procs :
        /\ PingQueryFailed(p)
        /\ RefusedError(queryErr[p])
        /\ queryErr[p].timeoutWord
        /\ reply[p].text = "Starting up or not responding"

QueryAnswered(p) ==
    /\ Reconciles(p)
    /\ pc[p] = "done"
    /\ snapshot[p] = "outputsIp"
    /\ answer[p] # NoCounts

\* C11: with public_ip present, a status query that succeeds with counts
\* (online, max) gives Online, and the presentation holds '<online>/<max>':
\* the presence is 'online' with the count, the reply's Players field is the
\* count; counts (3, 20) give '3/20'.
C11_OnlineShowsPlayerCount ==
    \A p \in Procs :
        QueryAnswered(p) =>
            LET shown == IF kind[p] = "tick" THEN wrote[p].players ELSE reply[p].players
            IN /\ shown = ToString(answer[p][1]) \o "/" \o ToString(answer[p][2])
               /\ answer[p] = <<3, 20>> => shown = "3/20"
               /\ IF kind[p] = "tick"
                  THEN wrote[p].status = "online"
                  ELSE reply[p].title = "Server Online"

C11_Witness ==
    \E p, q \in Procs :
        /\ QueryAnswered(p) /\ kind[p] = "tick"
        /\ wrote[p] = [status |-> "online", players |-> "3/20"]
        /\ QueryAnswered(q) /\ kind[q] = "ping-server"
        /\ reply[q].title = "Server Online" /\ reply[q].players = "3/20"

Queried(p) == Reconciles(p) /\ pc[p] \in {"query", "done"} /\ queries[p] > 0

\* C12: with SERVER_HOSTNAME set and public_ip present, every status query
\* of both paths goes to that hostname on port 25565 whatever public_ip is;
\* the public_ip is the target only when no hostname is set.
C12_HostnameOverridesPublicIp ==
    \A p \in Procs :
        Queried(p) =>
            /\ address[p].port = 25565
            /\ hostname # "" => address[p].host = hostname
            /\ hostname = "" => address[p].host = upstream[p].ip

C12_Witness ==
    \E p, q \in Procs :
        /\ hostname = "mc.example.org"
        /\ Queried(p) /\ kind[p] = "tick" /\ upstream[p].ip = "1.2.3.4"
        /\ Queried(q) /\ kind[q] = "ping-server" /\ upstream[q].ip = "5.6.7.8"
        /\ address[p].host = hostname /\ address[q].host = hostname

\* Steps of a call, read off the fields of its slot.
Enters(p) == pc[p] \in {"idle", "done"} /\ pc'[p] \in {"auth", "op"}
AuthCompletes(p) == pc[p] = "auth" /\ pc'[p] = "op"
Sends(p) == ~(pc[p] = "op") /\ pc'[p] = "op"

\* C13: a call that enters the guard while no token is held starts its own
\* authenticate request even when another call's request is pending; a call
\* that authenticates sends its control-plane request in the step in which
\* its own authenticate completes, carrying the token of that response; and
\* the session token changes only when an authenticate completes, to the
\* token of that response (so it is always that of the last one completed).
C13_NoCoalescing ==
    [][ /\ \A p \in Procs :
              /\ (Enters(p) /\ ~Truthy(accessToken)) =>
                     /\ pc'[p] = "auth"
                     /\ ownAuth'[p] = "pending"
                     /\ ~sent'[p]
              /\ (Sends(p) /\ ownAuth'[p] # "none") =>
                     /\ AuthCompletes(p)
                     /\ ownAuth'[p] = "ok"
              /\ AuthCompletes(p) =>
                     /\ accessToken' = bearer'[p]
                     /\ Truthy(accessToken') => accessToken'.by = p
        /\ accessToken' # accessToken => \E p \in Procs : AuthCompletes(p)
      ]_vars

\* Both calls entered before either authenticate completed, the authenticate
\* of call 1 completed first, and the session holds the token of call 2.
C13_Witness ==
    /\ pc[1] = "op" /\ pc[2] = "op"
    /\ ownAuth[1] = "ok" /\ ownAuth[2] = "ok"
    /\ bearer[1] = StringToken(0, 1)
    /\ bearer[2] = StringToken(0, 2)
    /\ accessToken = StringToken(0, 2)

StartStopInFlight(p) == pc[p] = "op" /\ kind[p] \in {"start", "stop"} /\ sent[p]

\* C14: while a start or stop request is in flight, a further start or stop
\* command is let into the client at once, whichever of the two it is:
\* nothing rejects it or makes it wait for the request in flight.
C14_StartStopNotLocked ==
    \A p, q \in Procs :
        (p # q /\ StartStopInFlight(p) /\ pc[q] \in {"idle", "done"} /\ calls < MaxCalls) =>
            \A k \in {"start", "stop"} : ENABLED Invoke(q, k)

\* A startServer and a stopServer request in flight at the same time.
C14_Witness ==
    /\ StartStopInFlight(1) /\ kind[1] = "start"
    /\ StartStopInFlight(2) /\ kind[2] = "stop"
    /\ bearer[1] = bearer[2]

\* The getResources call of tick p fails in this step.
TickApiFails(p) == kind[p] = "tick" /\ pc[p] \in {"auth", "op"} /\ thrown'[p] # NoError
TickApiFailed(p) == kind[p] = "tick" /\ pc[p] = "done" /\ thrown[p] # NoError

\* C15: the step in which a tick's getResources call fails lets no exception
\* leave updateBotStatus, writes no presence and leaves the presence as it
\* was, makes no protocol query, and changes nothing of the call handled in
\* the other slot; after it a further tick can still be started.
C15_TickFailureSwallowed ==
    /\ [][ \A p \in Procs : TickApiFails(p) =>
              /\ ~escaped'[p]
              /\ presence' = presence
              /\ wrote'[p] = NoPresence
              /\ queries'[p] = 0
              /\ reply'[p] = NoReply
              /\ \A q \in Procs \ {p} :
                    /\ pc'[q] = pc[q] /\ kind'[q] = kind[q]
                    /\ reply'[q] = reply[q] /\ thrown'[q] = thrown[q]
                    /\ snapshot'[q] = snapshot[q] /\ escaped'[q] = escaped[q]
                    /\ bearer'[q] = bearer[q]
          ]_vars
    /\ [](\A p \in Procs : (TickApiFailed(p) /\ calls < MaxCalls) => ENABLED Invoke(p, "tick"))

\* A tick failed while the presence showed the player count of an earlier
\* tick and a status command was waiting for its answer.
C15_Witness ==
    \E p \in Procs, q \in Procs :
        /\ TickApiFailed(p)
        /\ thrown[p].message = "Failed to get resources"
        /\ presence = [status |-> "online", players |-> "3/20"]
        /\ pc[q] = "op" /\ kind[q] = "status"

\* What a fresh load of the configuration observes.
PersistedChannel == LoadConfig(envChannel, file).notificationChannelId

\* C16 as stated: once a permitted set-notification-channel command has set
\* the channel to c, a fresh load observes c (not the environment default),
\* and the in-memory value equals what a fresh load observes.
C16_ChangePersisted ==
    lastSet # NullChannel =>
        /\ PersistedChannel = lastSet
        /\ config.notificationChannelId = PersistedChannel

\* The operation of call p sent its request and the call is over.
OperationOver(p) == pc[p] = "done" /\ sent[p] /\ kind[p] \in ClientKinds

\* C17: an operation whose control-plane request failed threw an error whose
\* message is the upstream detail when there is one, else its own fallback;
\* an operation whose request succeeded threw nothing and returned the body
\* of the response.
C17_DetailElseFallback ==
    \A p \in Procs : OperationOver(p) =>
        IF upstream[p].ok
        THEN /\ thrown[p] = NoError
             /\ snapshot[p] = upstream[p].body
        ELSE /\ upstream[p].detail # "" => thrown[p].message = upstream[p].detail
             /\ upstream[p].detail = "" =>
                    thrown[p].message =
                        CASE kind[p] = "start" -> "Failed to start server"
                          [] kind[p] = "stop" -> "Failed to stop server"
                          [] kind[p] = "status" -> "Failed to get resources"

\* A stop request sent after a successful authenticate was rejected with a
\* detail, which is the message thrown.
C17_Witness ==
    \E p \in Procs :
        /\ OperationOver(p) /\ kind[p] = "stop"
        /\ ownAuth[p] = "ok"
        /\ upstream[p] = Failure("Stack is locked")
        /\ thrown[p].message = "Stack is locked"

\* C18 as stated: once the bot is ready the interval is eventually started;
\* it is started at most once and never undone; and once started it fires
\* again and again.
C18_TimerStartedOnceTicksForever ==
    /\ (boot # "login") ~> (timers = 1)
    /\ [](timers <= 1)
    /\ [][timers' >= timers]_vars
    /\ (timers = 1 /\ ticks = 0) ~> (ticks = 1)
    /\ (timers = 1 /\ ticks = 1) ~> (ticks = 0)

OperationEnds(p) == pc[p] = "op" /\ pc'[p] = "done"

\* C19: the step in which an operation's request ends, with a response or
\* with an error, leaves accessToken and tokenExpiry as they were; either
\* field changes only in a step in which an authenticate completes.
C19_SessionWrittenOnlyByAuthenticate ==
    [][ /\ \A p \in Procs : OperationEnds(p) =>
              /\ accessToken' = accessToken
              /\ tokenExpiry' = tokenExpiry
        /\ (accessToken' # accessToken \/ tokenExpiry' # tokenExpiry) =>
              \E p \in Procs : AuthCompletes(p) /\ ownAuth'[p] = "ok"
      ]_vars

\* A request sent with the cached token was rejected by the upstream, and
\* the session still holds that token and its expiry.
C19_Witness ==
    \E p \in Procs :
        /\ pc[p] = "done" /\ kind[p] = "status" /\ ownAuth[p] = "none"
        /\ upstream[p] = Failure(TokenRejected)
        /\ Truthy(accessToken)
        /\ tokenExpiry = ExpiryAfter(authDoneAt)

StartStopCommand(p) == kind[p] \in {"start", "stop"} /\ pc[p] \in {"auth", "op"}
ShownSuccess(p) ==
    /\ reply[p].title \in {"Server Started Successfully!", "Server Stopped Successfully"}
    /\ thrown[p] = NoError /\ upstream[p].ok
ShownError(p) ==
    /\ reply[p].title = "Error"
    /\ thrown[p] # NoError /\ ~upstream[p].ok

\* C20 as stated: every start or stop command that entered the client
\* eventually ends; when it has ended, the reply shown is either the success
\* reply (the remote call returned) or the error reply (it threw), not both;
\* and a request in flight leaves flight only by ending the command with a
\* response or an error.
C20_CommandTerminatesWithOneOutcome ==
    /\ \A p \in Procs : StartStopCommand(p) ~> (pc[p] = "done")
    /\ [](\A p \in Procs : (pc[p] = "done" /\ kind[p] \in {"start", "stop"}) =>
              (ShownSuccess(p) /\ ~ShownError(p)) \/ (ShownError(p) /\ ~ShownSuccess(p)))
    /\ [][\A p \in Procs : (pc[p] = "op" /\ pc'[p] # "op") =>
              /\ pc'[p] = "done"
              /\ thrown'[p] # NoError \/ upstream'[p].ok]_vars

\* The three presence values and the signals of tick p that call for each.
WroteIdle(p) ==
    /\ wrote[p] = [status |-> "idle", players |-> ""]
    /\ snapshot[p] \in {"message", "outputsNoIp", "outputsEmptyIp"}
    /\ queries[p] = 0
WroteDnd(p) ==
    /\ wrote[p] = [status |-> "dnd", players |-> ""]
    /\ snapshot[p] = "outputsIp"
    /\ queryErr[p] # NoError
WroteOnline(p) ==
    /\ wrote[p].status = "online"
    /\ wrote[p].players = ToString(answer[p][1]) \o "/" \o ToString(answer[p][2])
    /\ snapshot[p] = "outputsIp"
    /\ queryErr[p] = NoError /\ answer[p] # NoCounts

\* C21: a tick that has written the presence is over and wrote one of the
\* three values, the one its own snapshot and query call for; the step in
\* which a tick writes ends it and makes that value the presence, so a tick
\* writes at most once (what it wrote is cleared only when its slot starts a
\* new run); and the presence changes only in a step in which a tick writes.
C21_TickWritesOneOfThree ==
    /\ [](\A p \in Procs : (kind[p] = "tick" /\ wrote[p] # NoPresence) =>
              /\ pc[p] = "done"
              /\ WroteIdle(p) \/ WroteDnd(p) \/ WroteOnline(p))
    /\ [][ /\ \A p \in Procs :
                /\ (wrote[p] = NoPresence /\ wrote'[p] # NoPresence) =>
                       /\ kind[p] = "tick" /\ pc'[p] = "done"
                       /\ presence' = wrote'[p]
                /\ (wrote[p] # NoPresence /\ wrote'[p] # wrote[p]) =>
                       /\ wrote'[p] = NoPresence
                       /\ pc'[p] \in {"auth", "op"}
           /\ presence' # presence =>
                 \E q \in Procs : wrote[q] = NoPresence /\ wrote'[q] = presence'
      ]_vars

\* One tick wrote 'dnd' after a failed query, another wrote 'idle' for a
\* snapshot whose public_ip is empty.
C21_Witness ==
    \E p, q \in Procs :
        /\ kind[p] = "tick" /\ WroteDnd(p)
        /\ kind[q] = "tick" /\ WroteIdle(q) /\ snapshot[q] = "outputsEmptyIp"
        /\ presence = wrote[q]

\* C22 as stated: in the step in which a control-plane request is sent the
\* session holds a token string (neither null nor undefined), and the
\* request carries the token the session holds, which is the one stored by
\* the last authenticate that completed.
C22_RequestsCarryStoredToken ==
    [][\A p \in Procs : Sends(p) =>
          /\ Truthy(accessToken')
          /\ bearer'[p] = accessToken'
          /\ authDoneAt # NotYet \/ AuthCompletes(p)]_vars

StartOrStop(p) == kind[p] \in {"start", "stop"}
SuccessShown(p) ==
    reply[p].title = (IF kind[p] = "start" THEN "Server Started Successfully!"
                      ELSE "Server Stopped Successfully")

\* C23: a start or stop command has a notification (pending, delivered or
\* failed) only when its remote call returned and the success reply is
\* shown; a command whose remote call threw has none; and a command whose
\* notification failed still shows the success reply, with no exception
\* having left its handler.  The notification goes to the channel
\* configured when the remote call returned.
C23_NotifyOnlyAfterSuccess ==
    /\ [](\A p \in Procs : StartOrStop(p) =>
              /\ notice[p] # NoNotice =>
                    /\ upstream[p].ok /\ thrown[p] = NoError
                    /\ SuccessShown(p)
              /\ thrown[p] # NoError => notice[p] = NoNotice
              /\ notice[p].delivered = "failed" =>
                    /\ pc[p] = "done" /\ SuccessShown(p) /\ ~escaped[p])
    /\ [][\A p \in Procs :
            (kind'[p] \in {"start", "stop"} /\ notice[p] = NoNotice /\ notice'[p] # NoNotice) =>
               /\ pc[p] = "op" /\ upstream'[p].ok
               /\ notice'[p].channel =
                     (IF config.notificationChannelId # "null"
                      THEN config.notificationChannelId ELSE envChannel)]_vars

\* A start command whose notification could not be delivered shows the
\* success reply, next to a stop command that failed and notified nobody.
C23_Witness ==
    \E p, q \in Procs :
        /\ kind[p] = "start" /\ pc[p] = "done"
        /\ notice[p] = Notice("900", "failed")
        /\ reply[p].title = "Server Started Successfully!"
        /\ kind[q] = "stop" /\ pc[q] = "done"
        /\ thrown[q].message = "Failed to stop server"
        /\ notice[q] = NoNotice

\* The rule of C24, read off the environment and the member of call p.
AdminIds == {adminEnv[i] : i \in DOMAIN adminEnv} \ {","}
Permitted(u) ==
    IF roleEnv # "" THEN roleEnv \in u.roles
    ELSE IF adminEnv # <<>> THEN u.id \in AdminIds
    ELSE u.administrator
Commanded(p) ==
    /\ member[p] # NoUser
    /\ kind[p] \in {"start", "stop", "set-notification-channel"}
Refused(p) == reply[p] = [title |-> "", text |-> PermissionDenied, players |-> ""]

\* C24: a start, stop or set-notification-channel command is refused exactly
\* when the rule denies its member (the role alone when ALLOWED_ROLE_ID is
\* set, else the list alone when ADMIN_USER_IDS is set, else the
\* Administrator bit); a refused command is over at once, having sent no
\* request, started no authenticate and posted no notification; and the step
\* that refuses it leaves the session, the configuration and config.json as
\* they were.
C24_RefusedCommandDoesNothing ==
    /\ [](\A p \in Procs : Commanded(p) =>
              /\ Refused(p) <=> ~Permitted(member[p])
              /\ Refused(p) =>
                    /\ pc[p] = "done"
                    /\ ~sent[p] /\ ownAuth[p] = "none"
                    /\ notice[p] = NoNotice
                    /\ bearer[p] = NullToken)
    /\ [][\A p \in Procs :
            (calls' # calls /\ member'[p] # NoUser /\ ~Permitted(member'[p])) =>
               /\ config' = config /\ file' = file /\ lastSet' = lastSet
               /\ accessToken' = accessToken /\ tokenExpiry' = tokenExpiry
               /\ authCalls' = authCalls /\ firstSend' = firstSend
               /\ pc'[p] = "done"]_vars

\* With ALLOWED_ROLE_ID set, a member who is an administrator and is on the
\* user list but lacks the role is refused a start command; nothing was
\* sent and no token was fetched.
C24_Witness ==
    /\ roleEnv = "r1" /\ adminEnv = <<"u1">>
    /\ kind[1] = "start"
    /\ member[1] = [id |-> "u1", roles |-> {}, administrator |-> TRUE]
    /\ Refused(1)
    /\ ~sent[1] /\ accessToken = NullToken /\ authCalls = 0

AuthFails(p) == pc[p] = "auth" /\ pc'[p] = "done"

\* C25: no step lowers tokenExpiry (null counting as below every time); a
\* step in which an authenticate completes sets it to that moment plus the
\* refresh window, which is at least what it was; a step in which an
\* authenticate fails leaves it as it was.
C25_ExpiryNeverDecreases ==
    [][ /\ tokenExpiry' >= tokenExpiry
        /\ \A p \in Procs :
              /\ AuthCompletes(p) =>
                    /\ tokenExpiry' = now + 5
                    /\ tokenExpiry' >= tokenExpiry
              /\ AuthFails(p) => tokenExpiry' = tokenExpiry
      ]_vars

\* Two authenticate calls were in flight together; the one sent first was
\* answered last, and the expiry is that of the later answer.
C25_Witness ==
    /\ pc[1] = "op" /\ pc[2] = "op"
    /\ ownAuth[1] = "ok" /\ ownAuth[2] = "ok"
    /\ bearer[2] = StringToken(1, 2)
    /\ bearer[1] = StringToken(2, 1)
    /\ tokenExpiry = 2 + RefreshTicks

====
